---- MODULE Spec2Model ----
(***************************************************************************)
(* A model of scraper.py, the "Books to Scrape" crawler.                   *)
(*                                                                         *)
(*   get_book_data             the detail extractor (a pure function of    *)
(*                             the response the transport returns)         *)
(*   _collect_all_books_links  the link collector (loop until a listing    *)
(*                             page cannot be fetched)                     *)
(*   _process_books_in_batches the batch orchestrator (a thread pool per   *)
(*                             batch, results collected as completed)      *)
(*   scrape_books              the pipeline: collect, extract, save        *)
(*                                                                         *)
(* Text is a sequence of tokens.  A token is the one-character string of a *)
(* digit, the whitespace token WS, or a string standing for a run of other *)
(* characters that neither starts nor ends with whitespace.                *)
(*                                                                         *)
(* A dict is a sequence of <<key, value>> pairs with distinct keys, in     *)
(* insertion order.                                                        *)
(*                                                                         *)
(* A Python call yields [exc, val, log]: exc is "none" when the call       *)
(* returned val, else the class of the exception that left it; log is the  *)
(* sequence of messages it printed.                                        *)
(***************************************************************************)
EXTENDS Integers, Sequences, FiniteSets, TLC

\* ------------------------------------------------------------------ bounds

\* rows of an additional-info table
MaxRows == 2
\* listing pages of the catalog: page MaxPages + 1 never exists
MaxPages == 2
\* h3 headings on a listing page
MaxHeadings == 2
\* length of the list handed to _process_books_in_batches
MaxLinks == 3
\* the batch_size and max_workers arguments tried
MaxBatchSize == 3
MaxWorkers == 2
\* classes of one rating element
MaxClasses == 2
\* firings of the daily job followed
MaxFirings == 2

\* --------------------------------------------------------------- constants

NOT_FOUND_STATUS_CODE == 404
DefaultBatchSize == 50
DefaultMaxWorkers == 10

\* ------------------------------------------------------------------- text

WS == " "
Digit == {"0", "1", "2", "3", "4", "5", "6", "7", "8", "9"}

SetMin(S) == CHOOSE m \in S : \A n \in S : m <= n
SetMax(S) == CHOOSE m \in S : \A n \in S : n <= m

\* str.strip(), as get_text(strip=True) applies it to an element's text
Strip(t) ==
    LET solid == {i \in 1..Len(t) : t[i] # WS}
    IN  IF solid = {} THEN <<>> ELSE SubSeq(t, SetMin(solid), SetMax(solid))

\* an element of the parsed page: found or not, and its text
Elem(t) == [present |-> TRUE, text |-> t]
Absent == [present |-> FALSE, text |-> <<>>]

\* ------------------------------------------------------------------ dicts

EmptyDict == <<>>
DictKeys(d) == {d[i][1] : i \in DOMAIN d}
DictHas(d, k) == \E i \in DOMAIN d : d[i][1] = k
DictGet(d, k) == d[CHOOSE i \in DOMAIN d : d[i][1] = k][2]

\* d[k] = v
DictSet(d, k, v) ==
    IF DictHas(d, k)
    THEN [i \in DOMAIN d |-> IF d[i][1] = k THEN <<k, v>> ELSE d[i]]
    ELSE Append(d, <<k, v>>)

\* d.update(e)
RECURSIVE DictUpdate(_, _)
DictUpdate(d, e) ==
    IF e = <<>> THEN d
    ELSE DictUpdate(DictSet(d, Head(e)[1], Head(e)[2]), Tail(e))

\* ------------------------------------------------------------ Python calls

Ret(v, msgs) == [exc |-> "none", val |-> v, log |-> msgs]
Raise(e, v, msgs) == [exc |-> e, val |-> v, log |-> msgs]

\* the classes of requests.exceptions the transport raises, and their bases
ExcParent ==
    [HTTPError |-> "RequestException",
     ConnectionError |-> "RequestException",
     Timeout |-> "RequestException",
     RequestException |-> "OSError",
     OSError |-> "Exception",
     Exception |-> "Exception"]

RECURSIVE IsInstance(_, _)
IsInstance(e, cls) ==
    \/ e = cls
    \/ /\ ExcParent[e] # e
       /\ IsInstance(ExcParent[e], cls)

\* the first except clause of `handlers` that matches e, or "unhandled"
RECURSIVE Handler(_, _)
Handler(e, handlers) ==
    IF handlers = <<>> THEN "unhandled"
    ELSE IF IsInstance(e, Head(handlers)) THEN Head(handlers)
    ELSE Handler(e, Tail(handlers))

\* response.raise_for_status()
raise_for_status(status) ==
    IF status >= 400 /\ status < 600 THEN "HTTPError" ELSE "none"

\* the exception of session.get(...) followed by raise_for_status()
FetchExc(resp) ==
    IF resp.exc # "none" THEN resp.exc ELSE raise_for_status(resp.status)

\* ----------------------------------------------------------- detail pages

NoMain ==
    [present |-> FALSE, h1 |-> Absent, price |-> Absent, avail |-> Absent,
     rate |-> [present |-> FALSE, class |-> <<>>]]

H1s == {Absent, Elem(<<WS, "Shakespeare's", WS, "Sonnets", WS>>)}
Prices == {Absent, Elem(<<"GBP", "2", "0", ".", "6", "6">>)}
Avails ==
    {Absent,
     Elem(<<WS, "In stock (", "1", "9", " available)", WS>>),
     Elem(<<"Out of stock">>)}
Rates ==
    {[present |-> FALSE, class |-> <<>>],
     [present |-> TRUE, class |-> <<"star-rating", "Four">>],
     [present |-> TRUE, class |-> <<"star-rating">>],
     [present |-> TRUE, class |-> <<"Two", "star-rating", "Five">>]}

MainInfos ==
    {NoMain} \cup
    [present : {TRUE}, h1 : H1s, price : Prices, avail : Avails, rate : Rates]

Descs ==
    {[header |-> FALSE, sibling |-> Absent],
     [header |-> TRUE, sibling |-> Absent],
     [header |-> TRUE, sibling |-> Elem(<<WS, "Poems.", WS>>)]}

Ths == {Absent, Elem(<<>>), Elem(<<"UPC">>), Elem(<<"Tax">>), Elem(<<"Rate">>)}
Tds == {Absent, Elem(<<"9.50">>)}
TableRows == [th : Ths, td : Tds]

SeqsUpTo(S, n) == UNION {[1..k -> S] : k \in 0..n}

Tables ==
    {[present |-> FALSE, rows |-> <<>>]} \cup
    [present : {TRUE}, rows : SeqsUpTo(TableRows, MaxRows)]

DetailPages == [main : MainInfos, desc : Descs, table : Tables]

EmptyPage ==
    [main |-> NoMain,
     desc |-> [header |-> FALSE, sibling |-> Absent],
     table |-> [present |-> FALSE, rows |-> <<>>]]

\* what session.get(book_url) can do: raise, or answer with a status
DetailResponses ==
    [exc : {"ConnectionError", "Timeout"}, status : {0}, page : {EmptyPage}]
    \cup [exc : {"none"}, status : {404, 500}, page : {EmptyPage}]
    \cup [exc : {"none"}, status : {200}, page : DetailPages]

\* ------------------------------------------------------- detail extractor

NoSoup == [some |-> FALSE, page |-> EmptyPage]
Soup(p) == [some |-> TRUE, page |-> p]

\* the two messages _get_book_response prints (the texts are Russian)
MsgHttp == "HTTP error"
MsgData == "data retrieval error: check the connection and the url"

\* _get_book_response without the call of raise_for_status
M_get_book_response_NoStatusCheck(resp) ==
    LET e == resp.exc
        h == Handler(e, <<"HTTPError", "RequestException">>)
    IN  IF e = "none" THEN Ret(Soup(resp.page), <<>>)
        ELSE IF h = "HTTPError" THEN Ret(NoSoup, <<MsgHttp>>)
        ELSE IF h = "RequestException" THEN Ret(NoSoup, <<MsgData>>)
        ELSE Raise(e, NoSoup, <<>>)

\* _get_book_response with the HTTPError clause as its only except clause
M_get_book_response_OnlyHttpHandler(resp) ==
    LET e == FetchExc(resp)
        h == Handler(e, <<"HTTPError">>)
    IN  IF e = "none" THEN Ret(Soup(resp.page), <<>>)
        ELSE IF h = "HTTPError" THEN Ret(NoSoup, <<MsgHttp>>)
        ELSE Raise(e, NoSoup, <<>>)

_get_book_response(resp) ==
    LET e == FetchExc(resp)
        h == Handler(e, <<"HTTPError", "RequestException">>)
    IN  IF e = "none" THEN Ret(Soup(resp.page), <<>>)
        ELSE IF h = "HTTPError" THEN Ret(NoSoup, <<MsgHttp>>)
        ELSE IF h = "RequestException" THEN Ret(NoSoup, <<MsgData>>)
        ELSE Raise(e, NoSoup, <<>>)

_get_attr_text(elem) ==
    IF elem.present THEN Strip(elem.text) ELSE <<>>

\* re.search(r"\d+", stock_info): the first maximal run of digits
_get_stock_amount(stock_info) ==
    LET ds == {i \in 1..Len(stock_info) : stock_info[i] \in Digit}
    IN  IF ds = {} THEN <<>>
        ELSE LET s == SetMin(ds)
                 e == SetMax({j \in s..Len(stock_info) :
                                \A k \in s..j : stock_info[k] \in Digit})
             IN  SubSeq(stock_info, s, e)

rating_map ==
    [Zero |-> <<"0">>, One |-> <<"1">>, Two |-> <<"2">>,
     Three |-> <<"3">>, Four |-> <<"4">>, Five |-> <<"5">>]

\* a loop that keeps looking after a match, so that the last mapped class wins
RECURSIVE M_FirstMapped_LastWins(_)
M_FirstMapped_LastWins(classes) ==
    IF classes = <<>> THEN <<>>
    ELSE IF M_FirstMapped_LastWins(Tail(classes)) # <<>>
         THEN M_FirstMapped_LastWins(Tail(classes))
    ELSE IF Head(classes) \in DOMAIN rating_map THEN rating_map[Head(classes)]
    ELSE <<>>

RECURSIVE FirstMapped(_)
FirstMapped(classes) ==
    IF classes = <<>> THEN <<>>
    ELSE IF Head(classes) \in DOMAIN rating_map THEN rating_map[Head(classes)]
    ELSE FirstMapped(Tail(classes))

_get_rate(rate_tag) ==
    IF ~rate_tag.present THEN <<>> ELSE FirstMapped(rate_tag.class)

_collect_description(page) ==
    IF ~page.desc.header THEN <<>>
    ELSE IF page.desc.sibling.present THEN Strip(page.desc.sibling.text)
    ELSE <<>>

\* the loop over the rows without its `if key:` test
RECURSIVE M_AdditionalInfoRows_NoKeyCheck(_, _)
M_AdditionalInfoRows_NoKeyCheck(rows, additional_info_dict) ==
    IF rows = <<>> THEN additional_info_dict
    ELSE LET table_row == Head(rows)
             key == IF table_row.th.present THEN table_row.th.text ELSE <<>>
             value == IF table_row.td.present THEN table_row.td.text ELSE <<>>
         IN  M_AdditionalInfoRows_NoKeyCheck(
                 Tail(rows), DictSet(additional_info_dict, key, value))

\* a loop that keeps the entry of the first row with a header text
RECURSIVE M_AdditionalInfoRows_FirstWins(_, _)
M_AdditionalInfoRows_FirstWins(rows, additional_info_dict) ==
    IF rows = <<>> THEN additional_info_dict
    ELSE LET table_row == Head(rows)
             key == IF table_row.th.present THEN table_row.th.text ELSE <<>>
             value == IF table_row.td.present THEN table_row.td.text ELSE <<>>
         IN  M_AdditionalInfoRows_FirstWins(
                 Tail(rows),
                 IF key # <<>> /\ ~DictHas(additional_info_dict, key)
                 THEN DictSet(additional_info_dict, key, value)
                 ELSE additional_info_dict)

\* the loop over find_all("tr"): get_text() here does not strip
RECURSIVE AdditionalInfoRows(_, _)
AdditionalInfoRows(rows, additional_info_dict) ==
    IF rows = <<>> THEN additional_info_dict
    ELSE LET table_row == Head(rows)
             key == IF table_row.th.present THEN table_row.th.text ELSE <<>>
             value == IF table_row.td.present THEN table_row.td.text ELSE <<>>
         IN  AdditionalInfoRows(
                 Tail(rows),
                 IF key # <<>> THEN DictSet(additional_info_dict, key, value)
                 ELSE additional_info_dict)

_collect_additional_info(page) ==
    IF ~page.table.present THEN EmptyDict
    ELSE AdditionalInfoRows(page.table.rows, EmptyDict)

KeyName == <<"Book name">>
KeyPrice == <<"Book price">>
KeyStock == <<"In stock amount">>
KeyRate == <<"Rate">>
KeyDescription == <<"Book description">>
FixedKeys == {KeyName, KeyPrice, KeyStock, KeyRate, KeyDescription}

\* get_book_data without its `if not main_info:` test
M_get_book_data_NoMainCheck(resp) ==
    LET r == _get_book_response(resp)
        soup == r.val
        main_info == soup.page.main
        book_dict ==
            <<<<KeyName, _get_attr_text(main_info.h1)>>,
              <<KeyPrice, _get_attr_text(main_info.price)>>,
              <<KeyStock, _get_stock_amount(_get_attr_text(main_info.avail))>>,
              <<KeyRate, _get_rate(main_info.rate)>>,
              <<KeyDescription, _collect_description(soup.page)>>>>
    IN  IF r.exc # "none" THEN Raise(r.exc, EmptyDict, r.log)
        ELSE IF ~soup.some THEN Ret(EmptyDict, r.log)
        ELSE Ret(DictUpdate(book_dict, _collect_additional_info(soup.page)), r.log)

get_book_data(resp) ==
    LET r == _get_book_response(resp)
        soup == r.val
        main_info == soup.page.main
        book_dict ==
            <<<<KeyName, _get_attr_text(main_info.h1)>>,
              <<KeyPrice, _get_attr_text(main_info.price)>>,
              <<KeyStock, _get_stock_amount(_get_attr_text(main_info.avail))>>,
              <<KeyRate, _get_rate(main_info.rate)>>,
              <<KeyDescription, _collect_description(soup.page)>>>>
    IN  IF r.exc # "none" THEN Raise(r.exc, EmptyDict, r.log)
        ELSE IF ~soup.some THEN Ret(EmptyDict, r.log)
        ELSE IF ~main_info.present THEN Ret(EmptyDict, r.log)
        ELSE Ret(DictUpdate(book_dict, _collect_additional_info(soup.page)), r.log)

\* ---------------------------------------------------------- listing pages

base_url == "https://books.toscrape.com/catalogue/"

\* base_url + str(a["href"])
Url(href) == <<base_url, href>>

Hrefs == {"a_1/index.html", "b_2/index.html"}
LooseHrefs == {"index.html"}

NoHref == [has_href |-> FALSE, href |-> ""]
Anchors == {NoHref} \cup [has_href : {TRUE}, href : Hrefs]

\* an h3 is the sequence of the anchors inside it: none, one, or two
H3s ==
    {<<>>} \cup {<<a>> : a \in Anchors}
    \cup {<<[has_href |-> TRUE, href |-> "a_1/index.html"],
             [has_href |-> TRUE, href |-> "b_2/index.html"]>>}

\* a page without any anchor
EmptyListing == [headings |-> <<>>, loose |-> {}]

\* a listing page: its h3 headings, and the hrefs of the anchors outside any
\* h3 (a page of the catalog carries the navigation links)
ListingPages ==
    [headings : SeqsUpTo(H3s, MaxHeadings), loose : {LooseHrefs}] \cup {EmptyListing}

\* the hrefs a listing page carries in anchors under its h3 headings
HrefsOn(page) ==
    {h \in Hrefs :
        \E n \in DOMAIN page.headings :
            \E j \in DOMAIN page.headings[n] :
                /\ page.headings[n][j].has_href
                /\ page.headings[n][j].href = h}

\* what session.get(page_url) can do for listing page n: pages after
\* MaxPages do not exist, so fetching them fails one way or another
ListingFailures ==
    [exc : {"ConnectionError", "Timeout"}, status : {0}, page : {EmptyListing}]
    \cup [exc : {"none"}, status : {404, 500}, page : {EmptyListing}]

ListingResponses(n) ==
    IF n > MaxPages THEN ListingFailures
    ELSE ListingFailures \cup [exc : {"none"}, status : {200}, page : ListingPages]

\* --------------------------------------------------------- link collector

NoListing == [some |-> FALSE, page |-> EmptyListing]
Listing(p) == [some |-> TRUE, page |-> p]

Msg(text, amount) == [text |-> text, amount |-> amount]
MsgExhausted == "no further pages in the catalog, final number of links"
MsgNetwork == "network connection error"

\* _process_page raising again every HTTP error other than not-found
M_process_page_ReraiseHttp(resp, page_num, links_amount) ==
    LET e == FetchExc(resp)
        h == Handler(e, <<"HTTPError", "RequestException">>)
    IN  IF e = "none" THEN Ret(Listing(resp.page), <<>>)
        ELSE IF h = "HTTPError" THEN
            IF resp.exc # "none" THEN Raise("UnboundLocalError", NoListing, <<>>)
            ELSE IF resp.status = NOT_FOUND_STATUS_CODE
                 THEN Ret(NoListing, <<Msg(MsgExhausted, links_amount)>>)
                 ELSE Raise(e, NoListing, <<Msg(MsgHttp, 0)>>)
        ELSE IF h = "RequestException" THEN Ret(NoListing, <<Msg(MsgNetwork, 0)>>)
        ELSE Raise(e, NoListing, <<>>)

\* _process_page with the HTTPError clause as its only except clause
M_process_page_OnlyHttpHandler(resp, page_num, links_amount) ==
    LET e == FetchExc(resp)
        h == Handler(e, <<"HTTPError">>)
    IN  IF e = "none" THEN Ret(Listing(resp.page), <<>>)
        ELSE IF h = "HTTPError" THEN
            IF resp.exc # "none" THEN Raise("UnboundLocalError", NoListing, <<>>)
            ELSE IF resp.status = NOT_FOUND_STATUS_CODE
                 THEN Ret(NoListing, <<Msg(MsgExhausted, links_amount)>>)
                 ELSE Ret(NoListing, <<Msg(MsgHttp, 0)>>)
        ELSE Raise(e, NoListing, <<>>)

\* the try block of _process_page.  When session.get itself raises an
\* HTTPError the handler reads `response` before any assignment.
_process_page(resp, page_num, links_amount) ==
    LET e == FetchExc(resp)
        h == Handler(e, <<"HTTPError", "RequestException">>)
    IN  IF e = "none" THEN Ret(Listing(resp.page), <<>>)
        ELSE IF h = "HTTPError" THEN
            IF resp.exc # "none" THEN Raise("UnboundLocalError", NoListing, <<>>)
            ELSE IF resp.status = NOT_FOUND_STATUS_CODE
                 THEN Ret(NoListing, <<Msg(MsgExhausted, links_amount)>>)
                 ELSE Ret(NoListing, <<Msg(MsgHttp, 0)>>)
        ELSE IF h = "RequestException" THEN Ret(NoListing, <<Msg(MsgNetwork, 0)>>)
        ELSE Raise(e, NoListing, <<>>)

\* the loop over soup.find_all("h3")
RECURSIVE HeadingLinks(_, _)
HeadingLinks(h3s, found) ==
    IF h3s = <<>> THEN found
    ELSE LET h3 == Head(h3s)
         IN  HeadingLinks(
                 Tail(h3s),
                 found \cup {Url(h3[j].href) : j \in {k \in DOMAIN h3 : h3[k].has_href}})

\* _collect_links_from_page reading the first h3 only (find for find_all)
M_collect_links_FirstHeadingOnly(soup) ==
    IF ~soup.some \/ soup.page.headings = <<>> THEN {}
    ELSE HeadingLinks(<<Head(soup.page.headings)>>, {})

_collect_links_from_page(soup) ==
    IF ~soup.some THEN {} ELSE HeadingLinks(soup.page.headings, {})

\* ------------------------------------------------------ persistence sink

Title(n) == [kind |-> "title", n |-> n, key |-> <<>>, value |-> <<>>]
Entry(k, v) == [kind |-> "entry", n |-> 0, key |-> k, value |-> v]
Blank == [kind |-> "blank", n |-> 0, key |-> <<>>, value |-> <<>>]

\* f.writelines(f"{key}: {value}\n" for key, value in book.items())
BookLines(book) == [j \in DOMAIN book |-> Entry(book[j][1], book[j][2])]

\* a sink that writes nothing for a record without entries
RECURSIVE M_BlocksFrom_SkipsEmpty(_, _)
M_BlocksFrom_SkipsEmpty(books, n) ==
    IF n > Len(books) THEN <<>>
    ELSE IF books[n] = EmptyDict THEN M_BlocksFrom_SkipsEmpty(books, n + 1)
    ELSE <<Title(n)>> \o BookLines(books[n]) \o <<Blank>>
             \o M_BlocksFrom_SkipsEmpty(books, n + 1)

\* the lines written for books[n..]
RECURSIVE BlocksFrom(_, _)
BlocksFrom(books, n) ==
    IF n > Len(books) THEN <<>>
    ELSE <<Title(n)>> \o BookLines(books[n]) \o <<Blank>> \o BlocksFrom(books, n + 1)

\* open(filename, "w") truncates: the lines written are the whole file
_save_books_to_file(books) == BlocksFrom(books, 1)

\* ------------------------------------------------------------------ state

VARIABLES
    pc,             \* where the calling thread is
    book_resp,      \* get_book_data alone: the transport's answer for book_url
    book_soup,      \* get_book_data alone: what _get_book_response yielded
    book_ret,       \* get_book_data alone: what the call yielded
    book_info,      \* get_book_data alone: what _collect_additional_info returned
    rate_tag,       \* _get_rate alone: the element found, with its class list
    rate_ret,       \* _get_rate alone: what the call returned
    start_page,     \* _collect_all_books_links: the start_page_num argument
    page_num,       \* the running start_page_num
    links,          \* the set accumulated
    current_page,   \* what _process_page returned
    fetches,        \* every listing request so far: page, outcome, message
    served,         \* per listing page served so far, the hrefs it carries under h3
    url_list,       \* _process_books_in_batches: the links argument
    batch_size,
    max_workers,
    i,              \* the loop variable of range(0, len(links), batch_size)
    tasks,          \* position in url_list -> the state of its future
    all_books_data,
    done_links,     \* the positions whose result was appended, in order
    batch_log,      \* the batch numbers announced
    sleeps,         \* calls of time.sleep(delay) so far
    failed,         \* the positions whose extraction found no book
    save,           \* scrape_books: the save argument
    file,           \* the lines of books_data.txt
    result,         \* what scrape_books returned
    saves,          \* calls of _save_books_to_file so far
    sched,          \* every_day_parser: where its loop is
    job,            \* where the firing of _job in progress is
    due,            \* the scheduled time has arrived and the job has not run since
    active,         \* firings of _job begun and not finished
    firings,        \* firings of _job finished
    job_log         \* what the firings printed

extractVars == <<book_resp, book_soup, book_ret, book_info, rate_tag, rate_ret>>
linkVars == <<start_page, page_num, links, current_page, fetches, served>>
batchVars ==
    <<url_list, batch_size, max_workers, i, tasks, all_books_data, done_links,
      batch_log, sleeps, failed>>
scrapeVars == <<save, file, result, saves>>
schedVars == <<sched, job, due, active, firings, job_log>>
vars == <<pc, extractVars, linkVars, batchVars, scrapeVars, schedVars>>

NoCall == [exc |-> "none", val |-> EmptyDict, log |-> <<>>]
NoSoupCall == [exc |-> "none", val |-> NoSoup, log |-> <<>>]

NoRateTag == [present |-> FALSE, class |-> <<>>]

RateIdle ==
    /\ rate_tag = NoRateTag
    /\ rate_ret = <<>>

ExtractIdle ==
    /\ book_resp = [exc |-> "none", status |-> 0, page |-> EmptyPage]
    /\ book_soup = NoSoupCall
    /\ book_ret = NoCall
    /\ book_info = EmptyDict
    /\ RateIdle

LinksStart(n) ==
    /\ start_page = n
    /\ page_num = n
    /\ links = {}
    /\ current_page = NoListing
    /\ fetches = <<>>
    /\ served = <<>>

BatchStart(l, b, w) ==
    /\ url_list = l
    /\ batch_size = b
    /\ max_workers = w
    /\ i = 0
    /\ tasks = <<>>
    /\ all_books_data = <<>>
    /\ done_links = <<>>
    /\ batch_log = <<>>
    /\ sleeps = 0
    /\ failed = {}

ScrapeIdle ==
    /\ save = FALSE
    /\ file = <<>>
    /\ result = <<>>
    /\ saves = 0

SchedIdle ==
    /\ sched = "none"
    /\ job = "none"
    /\ due = FALSE
    /\ active = 0
    /\ firings = 0
    /\ job_log = <<>>

\* ------------------------------------------------ get_book_data on its own

ExtractInit ==
    /\ pc = "get_book_data"
    /\ book_resp \in DetailResponses
    /\ book_soup = NoSoupCall
    /\ book_ret = NoCall
    /\ book_info = EmptyDict
    /\ RateIdle
    /\ LinksStart(1)
    /\ BatchStart(<<>>, 1, 1)
    /\ ScrapeIdle
    /\ SchedIdle

CallGetBookData ==
    /\ pc = "get_book_data"
    /\ book_soup' = _get_book_response(book_resp)
    /\ book_ret' = get_book_data(book_resp)
    /\ book_info' =
           LET r == _get_book_response(book_resp)
           IN  IF r.exc = "none" /\ r.val.some /\ r.val.page.main.present
               THEN _collect_additional_info(r.val.page)
               ELSE EmptyDict
    /\ pc' = IF book_ret'.exc = "none" THEN "returned" ELSE "raised"
    /\ UNCHANGED <<book_resp, rate_tag, rate_ret>>
    /\ UNCHANGED <<linkVars, batchVars, scrapeVars, schedVars>>

ExtractNext == CallGetBookData

SpecExtract == ExtractInit /\ [][ExtractNext]_vars

\* ------------------------------------------------ _collect_all_books_links

\* current_page = _process_page(session, start_page_num, len(links))
ProcessPage ==
    /\ pc = "collect_fetch"
    /\ \E resp \in ListingResponses(page_num) :
        LET r == _process_page(resp, page_num, Cardinality(links))
        IN  /\ current_page' = r.val
            /\ fetches' = Append(fetches,
                   [page |-> page_num, exc |-> resp.exc, status |-> resp.status,
                    log |-> r.log])
            /\ served' =
                   IF FetchExc(resp) = "none"
                   THEN Append(served, HrefsOn(resp.page))
                   ELSE served
            /\ pc' = IF r.exc = "none" THEN "collect_check" ELSE "raised"
    /\ UNCHANGED <<start_page, page_num, links>>
    /\ UNCHANGED <<extractVars, batchVars, scrapeVars, schedVars>>

\* the loop asking once more for the page whose fetch failed
M_CollectLoop_RetryOnce ==
    /\ pc = "collect_check"
    /\ IF ~current_page.some
       THEN /\ pc' = IF Len(fetches) = Len(served) + 1
                     THEN "collect_fetch" ELSE "collect_done"
            /\ UNCHANGED <<links, page_num>>
       ELSE /\ links' = links \cup _collect_links_from_page(current_page)
            /\ page_num' = page_num + 1
            /\ pc' = "collect_fetch"
    /\ UNCHANGED <<start_page, current_page, fetches, served>>
    /\ UNCHANGED <<extractVars, batchVars, scrapeVars, schedVars>>

\* the loop taking a page without links for the end of the catalog
M_CollectLoop_StopOnEmptyPage ==
    /\ pc = "collect_check"
    /\ IF ~current_page.some \/ _collect_links_from_page(current_page) = {}
       THEN /\ pc' = "collect_done"
            /\ UNCHANGED <<links, page_num>>
       ELSE /\ links' = links \cup _collect_links_from_page(current_page)
            /\ page_num' = page_num + 1
            /\ pc' = "collect_fetch"
    /\ UNCHANGED <<start_page, current_page, fetches, served>>
    /\ UNCHANGED <<extractVars, batchVars, scrapeVars, schedVars>>

\* the loop stepping over a page number
M_CollectLoop_SkipsPage ==
    /\ pc = "collect_check"
    /\ IF ~current_page.some
       THEN /\ pc' = "collect_done"
            /\ UNCHANGED <<links, page_num>>
       ELSE /\ links' = links \cup _collect_links_from_page(current_page)
            /\ page_num' = page_num + 2
            /\ pc' = "collect_fetch"
    /\ UNCHANGED <<start_page, current_page, fetches, served>>
    /\ UNCHANGED <<extractVars, batchVars, scrapeVars, schedVars>>

\* if not current_page: break; else update the set and go to the next page
CollectLoop ==
    /\ pc = "collect_check"
    /\ IF ~current_page.some
       THEN /\ pc' = "collect_done"
            /\ UNCHANGED <<links, page_num>>
       ELSE /\ links' = links \cup _collect_links_from_page(current_page)
            /\ page_num' = page_num + 1
            /\ pc' = "collect_fetch"
    /\ UNCHANGED <<start_page, current_page, fetches, served>>
    /\ UNCHANGED <<extractVars, batchVars, scrapeVars, schedVars>>

LinksInit ==
    /\ pc = "collect_fetch"
    /\ \E n \in 1..MaxPages : LinksStart(n)
    /\ ExtractIdle
    /\ BatchStart(<<>>, 1, 1)
    /\ ScrapeIdle
    /\ SchedIdle

LinksNext == ProcessPage \/ CollectLoop

\* the one thread of the collector keeps running
SpecLinks == LinksInit /\ [][LinksNext]_vars /\ WF_vars(LinksNext)

\* ----------------------------------------------- _process_books_in_batches

\* the state of one future of the current batch
Queued == [st |-> "queued", res |-> NoCall]
Running == [st |-> "running", res |-> NoCall]
Done(r) == [st |-> "done", res |-> r]
Collected(r) == [st |-> "collected", res |-> r]

Min2(a, b) == IF a < b THEN a ELSE b

\* the slice links[i : i + batch_size - 1]
M_BatchSlice_OffByOne(l, from, size) == (from + 1)..Min2(from + size - 1, Len(l))

\* the positions of links[i : i + batch_size]
BatchSlice(l, from, size) == (from + 1)..Min2(from + size, Len(l))

NumRunning == Cardinality({k \in DOMAIN tasks : tasks[k].st = "running"})
QueuedTasks == {k \in DOMAIN tasks : tasks[k].st = "queued"}

\* the answers the transport gives to the extraction tasks of a batch
FullPage ==
    [main |-> [present |-> TRUE,
               h1 |-> Elem(<<"Sonnets">>),
               price |-> Elem(<<"GBP", "2", "0">>),
               avail |-> Elem(<<"In stock (", "1", "9", " available)">>),
               rate |-> [present |-> TRUE, class |-> <<"star-rating", "Four">>]],
     desc |-> [header |-> TRUE, sibling |-> Elem(<<"Poems.">>)],
     table |-> [present |-> TRUE,
                rows |-> <<[th |-> Elem(<<"UPC">>), td |-> Elem(<<"9.50">>)]>>]]

\* an extraction that finds no book: the fetch fails, or the page has no
\* main-info block
ExtractionFails(resp) == FetchExc(resp) # "none" \/ ~resp.page.main.present

BatchResponses ==
    {[exc |-> "ConnectionError", status |-> 0, page |-> EmptyPage],
     [exc |-> "none", status |-> 500, page |-> EmptyPage],
     [exc |-> "none", status |-> 200, page |-> EmptyPage],
     [exc |-> "none", status |-> 200, page |-> FullPage]}

\* a turn of the loop that submits links[i:], every link not yet passed
M_StartBatch_OpenSlice ==
    /\ pc = "batch_loop"
    /\ i < Len(url_list)
    /\ tasks' = [k \in (i + 1)..Len(url_list) |-> Queued]
    /\ batch_log' = Append(batch_log, (i \div batch_size) + 1)
    /\ pc' = "batch_collect"
    /\ UNCHANGED <<url_list, batch_size, max_workers, i, all_books_data,
                   done_links, sleeps, failed>>
    /\ UNCHANGED <<extractVars, linkVars, scrapeVars, schedVars>>

\* one turn of `for i in range(0, len(links), batch_size)`: slice the batch,
\* announce it, open the pool and submit one task per link of the batch
StartBatch ==
    /\ pc = "batch_loop"
    /\ i < Len(url_list)
    /\ tasks' = [k \in BatchSlice(url_list, i, batch_size) |-> Queued]
    /\ batch_log' = Append(batch_log, (i \div batch_size) + 1)
    /\ pc' = "batch_collect"
    /\ UNCHANGED <<url_list, batch_size, max_workers, i, all_books_data,
                   done_links, sleeps, failed>>
    /\ UNCHANGED <<extractVars, linkVars, scrapeVars, schedVars>>

\* the range is exhausted: return all_books_data
FinishBatches ==
    /\ pc = "batch_loop"
    /\ i >= Len(url_list)
    /\ pc' = "batch_done"
    /\ UNCHANGED <<extractVars, linkVars, batchVars, scrapeVars, schedVars>>

\* a pool that starts a thread for every task submitted
M_WorkerStart_ThreadPerTask ==
    /\ QueuedTasks # {}
    /\ tasks' = [tasks EXCEPT ![SetMin(QueuedTasks)] = Running]
    /\ UNCHANGED <<pc, url_list, batch_size, max_workers, i, all_books_data,
                   done_links, batch_log, sleeps, failed>>
    /\ UNCHANGED <<extractVars, linkVars, scrapeVars, schedVars>>

\* a pool thread takes the oldest queued task; the pool has max_workers threads
WorkerStart ==
    /\ QueuedTasks # {}
    /\ NumRunning < max_workers
    /\ tasks' = [tasks EXCEPT ![SetMin(QueuedTasks)] = Running]
    /\ UNCHANGED <<pc, url_list, batch_size, max_workers, i, all_books_data,
                   done_links, batch_log, sleeps, failed>>
    /\ UNCHANGED <<extractVars, linkVars, scrapeVars, schedVars>>

\* a pool thread finishes get_book_data(link, session)
WorkerFinish ==
    /\ \E k \in DOMAIN tasks :
        /\ tasks[k].st = "running"
        /\ \E resp \in BatchResponses :
            /\ tasks' = [tasks EXCEPT ![k] = Done(get_book_data(resp))]
            /\ failed' = IF ExtractionFails(resp) THEN failed \cup {k} ELSE failed
    /\ UNCHANGED <<pc, url_list, batch_size, max_workers, i, all_books_data,
                   done_links, batch_log, sleeps>>
    /\ UNCHANGED <<extractVars, linkVars, scrapeVars, schedVars>>

\* as_completed yields a finished future: future.result() is appended, or
\* its exception leaves the function
Collect ==
    /\ pc = "batch_collect"
    /\ \E k \in DOMAIN tasks :
        /\ tasks[k].st = "done"
        /\ IF tasks[k].res.exc = "none"
           THEN /\ all_books_data' = Append(all_books_data, tasks[k].res.val)
                /\ done_links' = Append(done_links, k)
                /\ tasks' = [tasks EXCEPT ![k] = Collected(tasks[k].res)]
                /\ pc' = pc
           ELSE /\ pc' = "raised"
                /\ UNCHANGED <<all_books_data, done_links, tasks>>
    /\ UNCHANGED <<url_list, batch_size, max_workers, i, batch_log, sleeps, failed>>
    /\ UNCHANGED <<extractVars, linkVars, scrapeVars, schedVars>>

\* a pool left without waiting for its tasks
M_ExitPool_NoWait ==
    /\ pc = "batch_collect"
    /\ pc' = "batch_sleep"
    /\ UNCHANGED <<extractVars, linkVars, batchVars, scrapeVars, schedVars>>

\* as_completed is exhausted and the with block shuts the pool down
ExitPool ==
    /\ pc = "batch_collect"
    /\ \A k \in DOMAIN tasks : tasks[k].st = "collected"
    /\ pc' = "batch_sleep"
    /\ UNCHANGED <<extractVars, linkVars, batchVars, scrapeVars, schedVars>>

\* a pause made between batches only, none after the last one
M_Sleep_OnlyBetweenBatches ==
    /\ pc = "batch_sleep"
    /\ sleeps' = IF i + batch_size >= Len(url_list) THEN sleeps ELSE sleeps + 1
    /\ i' = i + batch_size
    /\ pc' = "batch_loop"
    /\ UNCHANGED <<url_list, batch_size, max_workers, tasks, all_books_data,
                   done_links, batch_log, failed>>
    /\ UNCHANGED <<extractVars, linkVars, scrapeVars, schedVars>>

\* time.sleep(delay), then the next value of the range
Sleep ==
    /\ pc = "batch_sleep"
    /\ sleeps' = sleeps + 1
    /\ i' = i + batch_size
    /\ pc' = "batch_loop"
    /\ UNCHANGED <<url_list, batch_size, max_workers, tasks, all_books_data,
                   done_links, batch_log, failed>>
    /\ UNCHANGED <<extractVars, linkVars, scrapeVars, schedVars>>

BookUrls == {Url(h) : h \in Hrefs}

BatchInit ==
    /\ pc = "batch_loop"
    /\ \E l \in SeqsUpTo(BookUrls, MaxLinks) :
        \E b \in 1..MaxBatchSize :
            \E w \in 1..MaxWorkers : BatchStart(l, b, w)
    /\ ExtractIdle
    /\ LinksStart(1)
    /\ ScrapeIdle
    /\ SchedIdle

BatchNext ==
    \/ StartBatch
    \/ WorkerStart
    \/ WorkerFinish
    \/ Collect
    \/ ExitPool
    \/ Sleep
    \/ FinishBatches

\* the calling thread and every pool thread keep running
SpecBatch == BatchInit /\ [][BatchNext]_vars /\ WF_vars(BatchNext)

\* ------------------------------------------------------------ scrape_books

Perms(S) ==
    {l \in [1..Cardinality(S) -> S] : \A a, b \in DOMAIN l : l[a] = l[b] => a = b}

\* _process_books_in_batches(list(all_books_links), session): the list takes
\* the set's elements in an order the set decides
CallBatches ==
    /\ pc = "collect_done"
    /\ \E l \in Perms(links) : url_list' = l
    /\ batch_size' = DefaultBatchSize
    /\ max_workers' = DefaultMaxWorkers
    /\ i' = 0
    /\ pc' = "batch_loop"
    /\ UNCHANGED <<tasks, all_books_data, done_links, batch_log, sleeps, failed>>
    /\ UNCHANGED <<extractVars, linkVars, scrapeVars, schedVars>>

\* scrape_books writing the file whatever the flag says
M_SaveAndReturn_AlwaysSaves ==
    /\ pc = "batch_done"
    /\ file' = _save_books_to_file(all_books_data)
    /\ saves' = saves + 1
    /\ result' = all_books_data
    /\ pc' = "scrape_returned"
    /\ UNCHANGED save
    /\ UNCHANGED <<extractVars, linkVars, batchVars, schedVars>>

\* if save: _save_books_to_file(all_books_data); return all_books_data
SaveAndReturn ==
    /\ pc = "batch_done"
    /\ file' = IF save THEN _save_books_to_file(all_books_data) ELSE file
    /\ saves' = IF save THEN saves + 1 ELSE saves
    /\ result' = all_books_data
    /\ pc' = "scrape_returned"
    /\ UNCHANGED save
    /\ UNCHANGED <<extractVars, linkVars, batchVars, schedVars>>

OldFile == <<Title(1), Entry(KeyName, <<"Old">>), Blank, Title(2), Blank>>

Init ==
    /\ pc = "collect_fetch"
    /\ LinksStart(1)
    /\ ExtractIdle
    /\ BatchStart(<<>>, DefaultBatchSize, DefaultMaxWorkers)
    /\ save \in BOOLEAN
    /\ file = OldFile
    /\ result = <<>>
    /\ saves = 0
    /\ SchedIdle

Next ==
    \/ ProcessPage
    \/ CollectLoop
    \/ CallBatches
    \/ StartBatch
    \/ WorkerStart
    \/ WorkerFinish
    \/ Collect
    \/ ExitPool
    \/ Sleep
    \/ FinishBatches
    \/ SaveAndReturn

\* the calling thread and every pool thread keep running
Spec == Init /\ [][Next]_vars /\ WF_vars(Next)

\* ---------------------------------------------------------------- _get_rate

\* class names an element can carry: the six of rating_map and two others
ClassNames == DOMAIN rating_map \cup {"star-rating", "icon"}
RateTags == {NoRateTag} \cup [present : {TRUE}, class : SeqsUpTo(ClassNames, MaxClasses)]

RateInit ==
    /\ pc = "_get_rate"
    /\ rate_tag \in RateTags
    /\ rate_ret = <<>>
    /\ book_resp = [exc |-> "none", status |-> 0, page |-> EmptyPage]
    /\ book_soup = NoSoupCall
    /\ book_ret = NoCall
    /\ book_info = EmptyDict
    /\ LinksStart(1)
    /\ BatchStart(<<>>, 1, 1)
    /\ ScrapeIdle
    /\ SchedIdle

CallGetRate ==
    /\ pc = "_get_rate"
    /\ rate_ret' = _get_rate(rate_tag)
    /\ pc' = "rate_returned"
    /\ UNCHANGED <<book_resp, book_soup, book_ret, book_info, rate_tag>>
    /\ UNCHANGED <<linkVars, batchVars, scrapeVars, schedVars>>

RateNext == CallGetRate

SpecRate == RateInit /\ [][RateNext]_vars

\* ------------------------------------------------------ _save_books_to_file

\* records handed to the sink: empty, one entry, two entries in either order
SavedBooks ==
    {EmptyDict,
     <<<<KeyName, <<"Sonnets">>>>>>,
     <<<<KeyName, <<"Sonnets">>>>, <<<<"UPC">>, <<>>>>>>,
     <<<<<<"UPC">>, <<>>>>, <<KeyName, <<"Sonnets">>>>>>}

SaveInit ==
    /\ pc = "save"
    /\ all_books_data \in SeqsUpTo(SavedBooks, MaxLinks)
    /\ file \in {<<>>, OldFile}
    /\ url_list = <<>>
    /\ batch_size = 1
    /\ max_workers = 1
    /\ i = 0
    /\ tasks = <<>>
    /\ done_links = <<>>
    /\ batch_log = <<>>
    /\ sleeps = 0
    /\ failed = {}
    /\ save = TRUE
    /\ result = <<>>
    /\ saves = 0
    /\ ExtractIdle
    /\ LinksStart(1)
    /\ SchedIdle

\* _save_books_to_file(all_books_data): the file is opened with mode "w"
SaveBooks ==
    /\ pc = "save"
    /\ file' = _save_books_to_file(all_books_data)
    /\ saves' = saves + 1
    /\ pc' = "saved"
    /\ UNCHANGED <<save, result>>
    /\ UNCHANGED <<extractVars, linkVars, batchVars, schedVars>>

SaveNext == SaveBooks

SpecSave == SaveInit /\ [][SaveNext]_vars

\* -------------------------------------------------------- every_day_parser

\* what one run of scrape_books(save=True) can return
ScrapedBook == get_book_data([exc |-> "none", status |-> 200, page |-> FullPage]).val
ScrapedLists == SeqsUpTo({EmptyDict, ScrapedBook}, MaxLinks)

JobStarted == [event |-> "start", count |-> 0]
JobEnded(n) == [event |-> "end", count |-> n]

\* schedule.every().day.at("19:00").do(_job)
Register ==
    /\ sched = "register"
    /\ sched' = "run_pending"
    /\ UNCHANGED <<job, due, active, firings, job_log>>
    /\ UNCHANGED <<pc, extractVars, linkVars, batchVars, scrapeVars>>

\* the clock reaches the time the job is scheduled for next
TimeArrives ==
    /\ sched # "register"
    /\ ~due
    /\ firings < MaxFirings
    /\ due' = TRUE
    /\ UNCHANGED <<sched, job, active, firings, job_log>>
    /\ UNCHANGED <<pc, extractVars, linkVars, batchVars, scrapeVars>>

\* a pending-check that returns at once, the job left to run beside the loop
M_RunPending_Detached ==
    /\ sched = "run_pending"
    /\ job' = IF due THEN "start" ELSE job
    /\ sched' = "sleep"
    /\ UNCHANGED <<due, active, firings, job_log>>
    /\ UNCHANGED <<pc, extractVars, linkVars, batchVars, scrapeVars>>

\* schedule.run_pending(): a job that is due is called, in this thread
RunPending ==
    /\ sched = "run_pending"
    /\ IF due
       THEN /\ job' = "start"
            /\ sched' = "in_job"
       ELSE /\ sched' = "sleep"
            /\ UNCHANGED job
    /\ UNCHANGED <<due, active, firings, job_log>>
    /\ UNCHANGED <<pc, extractVars, linkVars, batchVars, scrapeVars>>

\* _job prints the start time
JobStart ==
    /\ job = "start"
    /\ job_log' = Append(job_log, JobStarted)
    /\ active' = active + 1
    /\ job' = "scrape"
    /\ UNCHANGED <<sched, due, firings>>
    /\ UNCHANGED <<pc, extractVars, linkVars, batchVars, scrapeVars>>

\* books_data = scrape_books(save=True)
JobScrape ==
    /\ job = "scrape"
    /\ save' = TRUE
    /\ \E books \in ScrapedLists :
        /\ result' = books
        /\ file' = _save_books_to_file(books)
    /\ saves' = saves + 1
    /\ job' = "end"
    /\ UNCHANGED <<sched, due, active, firings, job_log>>
    /\ UNCHANGED <<pc, extractVars, linkVars, batchVars>>

\* _job prints the end time and the number of books, and returns; the
\* scheduler then sets the job's next run, a time still to come
JobEnd ==
    /\ job = "end"
    /\ job_log' = Append(job_log, JobEnded(Len(result)))
    /\ active' = active - 1
    /\ firings' = firings + 1
    /\ due' = FALSE
    /\ job' = "none"
    /\ sched' = IF sched = "in_job" THEN "sleep" ELSE sched
    /\ UNCHANGED <<pc, extractVars, linkVars, batchVars, scrapeVars>>

\* time.sleep(45), then the next turn of `while True`
SleepPoll ==
    /\ sched = "sleep"
    /\ sched' = "run_pending"
    /\ UNCHANGED <<job, due, active, firings, job_log>>
    /\ UNCHANGED <<pc, extractVars, linkVars, batchVars, scrapeVars>>

ScheduleInit ==
    /\ pc = "every_day_parser"
    /\ sched = "register"
    /\ job = "none"
    /\ due = FALSE
    /\ active = 0
    /\ firings = 0
    /\ job_log = <<>>
    /\ ExtractIdle
    /\ LinksStart(1)
    /\ BatchStart(<<>>, DefaultBatchSize, DefaultMaxWorkers)
    /\ save = FALSE
    /\ file \in {<<>>, OldFile}
    /\ result = <<>>
    /\ saves = 0

ScheduleNext ==
    \/ Register
    \/ TimeArrives
    \/ RunPending
    \/ JobStart
    \/ JobScrape
    \/ JobEnd
    \/ SleepPoll

SpecSchedule == ScheduleInit /\ [][ScheduleNext]_vars

\* ------------------------------------------------------------------ claims

CeilDiv(n, b) == (n + b - 1) \div b
Range(f) == {f[x] : x \in DOMAIN f}

\* the positions of batch K of a list of n links
Segment(K, n, b) == ((K - 1) * b + 1)..Min2(K * b, n)

\* C1: _process_books_in_batches returns exactly one record per input URL,
\* the empty record for each URL whose extraction failed, and it processes
\* exactly ceil(N / batch_size) batches.
C1_OneRecordPerUrl ==
    pc = "batch_done" =>
        /\ Len(all_books_data) = Len(url_list)
        /\ Len(done_links) = Len(url_list)
        /\ Range(done_links) = DOMAIN url_list
        /\ \A p \in DOMAIN done_links :
               done_links[p] \in failed => all_books_data[p] = EmptyDict
        /\ Len(batch_log) = CeilDiv(Len(url_list), batch_size)

C1_Witness ==
    /\ pc = "batch_done"
    /\ Len(url_list) = 3
    /\ batch_size = 2
    /\ Len(batch_log) = 2
    /\ failed = {2}
    /\ Len(all_books_data) = 3

FetchOk(f) == f.exc = "none" /\ f.status < 400
NotFound(f) == f.exc = "none" /\ f.status = NOT_FOUND_STATUS_CODE
OtherFailure(f) == ~FetchOk(f) /\ ~NotFound(f)

AllServed == UNION Range(served)

\* C2: on a catalog of P pages (pages 1..P are served, page P + 1 answers
\* not-found), _collect_all_books_links started at page 1 returns exactly
\* the detail URLs of the links of pages 1..P, each counted once.
C2_LinksOfAllPages ==
    (/\ pc = "collect_done"
     /\ start_page = 1
     /\ NotFound(fetches[Len(fetches)]))
    => /\ Len(served) = Len(fetches) - 1
       /\ \A k \in DOMAIN served : \A h \in served[k] : Url(h) \in links
       /\ \A u \in links : \E h \in AllServed : u = Url(h)
       /\ Cardinality(links) = Cardinality(AllServed)

C2_Witness ==
    /\ pc = "collect_done"
    /\ start_page = 1
    /\ NotFound(fetches[Len(fetches)])
    /\ Len(served) = 2
    /\ served[1] = Hrefs
    /\ Cardinality(served[2]) = 1
    /\ Cardinality(links) = 2

\* C3: once the fetch of a listing page yields not-found, no further listing
\* page is requested and _collect_all_books_links returns.
C3_StopsAtNotFound ==
    /\ [](\A k \in DOMAIN fetches : NotFound(fetches[k]) => k = Len(fetches))
    /\ ((fetches # <<>> /\ NotFound(fetches[Len(fetches)])) ~> pc = "collect_done")

C3_Witness ==
    /\ pc = "collect_done"
    /\ Len(fetches) = 3
    /\ NotFound(fetches[3])
    /\ fetches[3].page = start_page + 2

\* C4: whatever the outcomes of the requests for listing and detail pages,
\* scrape_books never raises and eventually returns a list.
C4_RunCompletes ==
    /\ [](pc # "raised")
    /\ <>(pc = "scrape_returned")

C4_Witness ==
    /\ pc = "scrape_returned"
    /\ fetches[Len(fetches)].exc = "Timeout"
    /\ Len(result) = 2
    /\ failed = {1}

DetailFetchFails(resp) ==
    \/ resp.exc \in {"ConnectionError", "Timeout"}
    \/ resp.exc = "none" /\ resp.status >= 400 /\ resp.status < 600

\* C5: when the fetch of a detail page fails with a transport error or an
\* HTTP error status, _get_book_response returns None and get_book_data the
\* empty record; the failure is logged and no exception reaches the caller.
C5_FetchFailureGivesEmptyRecord ==
    (pc # "get_book_data" /\ DetailFetchFails(book_resp))
    => /\ pc = "returned"
       /\ book_soup.exc = "none"
       /\ book_soup.val = NoSoup
       /\ book_ret.exc = "none"
       /\ book_ret.val = EmptyDict
       /\ book_ret.log =
              IF book_resp.exc = "none" THEN <<MsgHttp>> ELSE <<MsgData>>

C5_Witness ==
    /\ pc = "returned"
    /\ book_resp.exc = "none"
    /\ book_resp.status = 404
    /\ book_ret.val = EmptyDict
    /\ book_ret.log = <<MsgHttp>>

\* C6: a failed fetch of a listing page of any kind other than not-found
\* stops the collection at that page: no later page is requested, nothing
\* is raised, and the links returned are those of the pages served before.
C6_OtherFailureStopsCollection ==
    \A k \in DOMAIN fetches :
        OtherFailure(fetches[k])
        => /\ k = Len(fetches)
           /\ pc \in {"collect_check", "collect_done"}
           /\ ~current_page.some
           /\ Len(served) = k - 1
           /\ links = {Url(h) : h \in AllServed}

C6_Witness ==
    /\ pc = "collect_done"
    /\ Len(fetches) = 2
    /\ fetches[2].exc = "ConnectionError"
    /\ links = {Url(h) : h \in Hrefs}

\* C7: a failed extraction never aborts a batch or the run: a dispatched
\* batch is left only when every one of its tasks has completed and had its
\* result collected, and the batches after it are processed all the same.
C7_FailureNeverAborts ==
    /\ pc # "raised"
    /\ pc \in {"batch_sleep", "batch_loop", "batch_done"}
       => \A k \in DOMAIN tasks : tasks[k].st = "collected"
    /\ pc = "batch_sleep"
       => Range(done_links) = 1..Min2(i + batch_size, Len(url_list))
    /\ pc \in {"batch_loop", "batch_done"}
       => Range(done_links) = 1..Min2(i, Len(url_list))

C7_Witness ==
    /\ pc = "batch_done"
    /\ batch_size = 1
    /\ Len(url_list) = 3
    /\ failed = {1, 2}
    /\ Len(batch_log) = 3
    /\ all_books_data[3] # EmptyDict

BatchOf(pos) == ((pos - 1) \div batch_size) + 1

\* C8: under every interleaving of the workers the results of the links of
\* batch K occupy exactly the output positions of batch K, in some order.
C8_BatchGrouping ==
    /\ Len(all_books_data) = Len(done_links)
    /\ \A p \in DOMAIN done_links : BatchOf(done_links[p]) = BatchOf(p)
    /\ \A p, q \in DOMAIN done_links : done_links[p] = done_links[q] => p = q
    /\ pc = "batch_done"
       => \A K \in 1..CeilDiv(Len(url_list), batch_size) :
              {done_links[p] : p \in Segment(K, Len(url_list), batch_size)}
                  = Segment(K, Len(url_list), batch_size)

C8_Witness ==
    /\ pc = "batch_done"
    /\ batch_size = 2
    /\ done_links = <<2, 1, 3>>

DetailFetched(resp) == resp.exc = "none" /\ resp.status = 200

\* C9: for a detail page fetched successfully that has no main-info block,
\* get_book_data returns the empty mapping and does not raise, whatever
\* else the page contains.
C9_NoMainInfoGivesEmptyRecord ==
    (/\ pc # "get_book_data"
     /\ DetailFetched(book_resp)
     /\ ~book_resp.page.main.present)
    => /\ pc = "returned"
       /\ book_ret.exc = "none"
       /\ book_ret.val = EmptyDict

C9_Witness ==
    /\ pc = "returned"
    /\ DetailFetched(book_resp)
    /\ ~book_resp.page.main.present
    /\ book_resp.page.desc.sibling.present
    /\ Len(book_resp.page.table.rows) = 2
    /\ book_ret.val = EmptyDict

\* the header texts that become keys: those of the rows of the table whose
\* header cell is there and is not empty
HeaderKeys(page) ==
    {page.table.rows[j].th.text :
        j \in {k \in DOMAIN page.table.rows :
                 /\ page.table.rows[k].th.present
                 /\ page.table.rows[k].th.text # <<>>}}

HasMainInfo == DetailFetched(book_resp) /\ book_resp.page.main.present

\* C10 as stated: the record of a page with a main-info block has the five
\* fixed keys and one key per row of the table, 5 + rows in all.
C10_OneKeyPerRow ==
    (pc = "returned" /\ HasMainInfo)
    => /\ FixedKeys \subseteq DictKeys(book_ret.val)
       /\ Len(book_ret.val) = 5 + Len(book_resp.page.table.rows)

\* C10 as amended: the keys of the record of a page with a main-info block
\* are exactly the five fixed keys and the header texts of the table rows
\* that have a header cell with text; equal keys are held once.
C10_FixedKeysPlusHeaders ==
    (pc # "get_book_data" /\ HasMainInfo)
    => /\ pc = "returned"
       /\ DictKeys(book_ret.val) = FixedKeys \cup HeaderKeys(book_resp.page)
       /\ Len(book_ret.val) =
              5 + Cardinality(HeaderKeys(book_resp.page) \ FixedKeys)
       /\ \A a, b \in DOMAIN book_ret.val :
              book_ret.val[a][1] = book_ret.val[b][1] => a = b

C10_Witness ==
    /\ pc = "returned"
    /\ HasMainInfo
    /\ Len(book_resp.page.table.rows) = 2
    /\ ~book_resp.page.table.rows[1].th.present
    /\ book_resp.page.table.rows[2].th = Elem(<<"UPC">>)
    /\ Len(book_ret.val) = 6

\* C11: the firings of the daily job never overlap: a firing runs to its end
\* before the scheduler loop makes its next pending-check, so at most one
\* firing is in progress at any time.
C11_FiringsNeverOverlap ==
    /\ active <= 1
    /\ sched \in {"run_pending", "sleep"} => (active = 0 /\ job = "none")
    /\ job # "none" => sched = "in_job"
    /\ Len(job_log) = 2 * firings + active
    /\ saves \in {firings, firings + 1}

C11_Witness ==
    /\ firings = 1
    /\ active = 1
    /\ job = "end"
    /\ saves = 2
    /\ sched = "in_job"

MappedAt(classes) == {k \in DOMAIN classes : classes[k] \in DOMAIN rating_map}

\* C12: the rating lookup returns, for every class list, the digit of the
\* first class that is a key of rating_map, and the empty string when the
\* element is absent or carries no mapped class.
C12_FirstMappedClassWins ==
    /\ pc = "rate_returned" =>
        IF rate_tag.present /\ MappedAt(rate_tag.class) # {}
        THEN rate_ret = rating_map[rate_tag.class[SetMin(MappedAt(rate_tag.class))]]
        ELSE rate_ret = <<>>
    /\ rate_ret \in {<<>>} \cup {rating_map[c] : c \in DOMAIN rating_map}

C12_Witness ==
    /\ pc = "rate_returned"
    /\ rate_tag.present
    /\ rate_tag.class = <<"Two", "Five">>
    /\ rate_ret = <<"2">>

\* line of the file on which the block of record n starts
RECURSIVE BlockStart(_, _)
BlockStart(books, n) ==
    IF n = 1 THEN 1 ELSE BlockStart(books, n - 1) + Len(books[n - 1]) + 2

\* C13: the file written holds, for the records in their order, one block
\* each: the title line numbered from 1, the record's entries as key: value
\* lines in insertion order, and a blank line; an empty record still has its
\* title and blank line, and nothing of the previous content remains.
C13_NumberedBlocksInOrder ==
    pc = "saved" =>
        /\ Len(file) = BlockStart(all_books_data, Len(all_books_data) + 1) - 1
        /\ \A n \in DOMAIN all_books_data :
            LET book == all_books_data[n]
                s == BlockStart(all_books_data, n)
            IN  /\ file[s] = Title(n)
                /\ \A j \in DOMAIN book : file[s + j] = Entry(book[j][1], book[j][2])
                /\ file[s + Len(book) + 1] = Blank

C13_Witness ==
    /\ pc = "saved"
    /\ Len(all_books_data) = 3
    /\ all_books_data[1] = EmptyDict
    /\ Len(all_books_data[2]) = 2
    /\ all_books_data[2][1][1] = <<"UPC">>
    /\ file[1] = Title(1)
    /\ file[2] = Blank
    /\ file[3] = Title(2)
    /\ file[4] = Entry(<<"UPC">>, <<>>)
    /\ file[5] = Entry(KeyName, <<"Sonnets">>)
    /\ file[7] = Title(3)
    /\ Len(file) = 8

\* C14: a fetched listing page without anchors adds no link and does not
\* end the collection: the loop goes on to the next page, and it ends only
\* after a fetch that failed.
C14_EmptyPageDoesNotStop ==
    /\ [][(/\ pc = "collect_check"
           /\ current_page.some
           /\ HrefsOn(current_page.page) = {})
          => (/\ pc' = "collect_fetch"
              /\ page_num' = page_num + 1
              /\ links' = links)]_vars
    /\ [](pc = "collect_done" =>
            /\ ~FetchOk(fetches[Len(fetches)])
            /\ Len(served) = Len(fetches) - 1)

C14_Witness ==
    /\ pc = "collect_fetch"
    /\ current_page = Listing(EmptyListing)
    /\ start_page = 1
    /\ page_num = 2
    /\ Len(fetches) = 1
    /\ served = <<{}>>
    /\ links = {}

\* C15: at most max_workers tasks execute at the same time, also when the
\* batch holds more tasks than that; the tasks waiting in the pool's queue
\* are run as well: in the end the task of every position has been collected.
C15_PoolBound ==
    /\ [](NumRunning <= max_workers)
    /\ <>(pc = "batch_done" /\ Range(done_links) = 1..Len(url_list))

C15_Witness ==
    /\ batch_size = 3
    /\ max_workers = 2
    /\ Len(url_list) = 3
    /\ NumRunning = 2
    /\ QueuedTasks = {3}

\* C16: batches run strictly one after the other: the tasks in the pool all
\* belong to the batch announced last, and while one of them is still to be
\* collected (or the pool is still open) every task of the earlier batches
\* has been collected and one pause per earlier batch has elapsed.
C16_BatchesInSequence ==
    /\ \A K \in DOMAIN batch_log : batch_log[K] = K
    /\ \A k \in DOMAIN tasks :
        /\ BatchOf(k) = Len(batch_log)
        /\ sleeps >= BatchOf(k) - 1
        /\ 1..((BatchOf(k) - 1) * batch_size) \subseteq Range(done_links)
    /\ (\E k \in DOMAIN tasks : tasks[k].st # "collected") =>
        /\ pc = "batch_collect"
        /\ sleeps = Len(batch_log) - 1
        /\ i = sleeps * batch_size
    /\ pc = "batch_collect" =>
        /\ tasks # <<>>
        /\ sleeps = Len(batch_log) - 1
        /\ Range(done_links) \subseteq 1..Min2(i + batch_size, Len(url_list))

C16_Witness ==
    /\ pc = "batch_collect"
    /\ batch_size = 2
    /\ Len(url_list) = 3
    /\ Len(batch_log) = 2
    /\ sleeps = 1
    /\ Range(done_links) = {1, 2}
    /\ DOMAIN tasks = {3}
    /\ tasks[3].st = "running"

\* C17: listing pages are requested in increasing order without gaps from
\* the start page, each once; page N + 1 is requested only after page N was
\* fetched and its links were merged into the accumulator.
C17_PagesInOrder ==
    /\ \A k \in DOMAIN fetches : fetches[k].page = start_page + k - 1
    /\ \A k \in DOMAIN fetches : k < Len(fetches) => FetchOk(fetches[k])
    /\ pc = "collect_fetch" =>
        /\ page_num = start_page + Len(fetches)
        /\ Len(served) = Len(fetches)
        /\ links = {Url(h) : h \in AllServed}
    /\ pc = "collect_check" => fetches[Len(fetches)].page = page_num

C17_Witness ==
    /\ pc = "collect_fetch"
    /\ start_page = 1
    /\ page_num = 3
    /\ Len(fetches) = 2
    /\ fetches[2].page = 2
    /\ served[1] # {}
    /\ served[2] # served[1]
    /\ Cardinality(links) = 2

CollectorAt == pc \in {"collect_fetch", "collect_check", "collect_done"}

\* C18: scrape_books runs its stages in order: no task is submitted before
\* the link collection has returned, and the tasks are those of the links
\* collected; the file is written only after the last batch is drained, at
\* most once, and only when save is true; the list returned is the list
\* that was written.
C18_StagesInOrder ==
    /\ CollectorAt => (url_list = <<>> /\ tasks = <<>> /\ batch_log = <<>>)
    /\ (tasks # <<>> \/ batch_log # <<>>) =>
        /\ Range(url_list) = links
        /\ Len(url_list) = Cardinality(links)
        /\ ~current_page.some
    /\ pc # "scrape_returned" => (saves = 0 /\ file = OldFile /\ result = <<>>)
    /\ pc = "scrape_returned" =>
        /\ saves = (IF save THEN 1 ELSE 0)
        /\ file = (IF save THEN _save_books_to_file(result) ELSE OldFile)
        /\ result = all_books_data
        /\ Range(done_links) = 1..Len(url_list)
        /\ \A k \in DOMAIN tasks : tasks[k].st = "collected"
        /\ sleeps = Len(batch_log)

C18_Witness ==
    /\ pc = "scrape_returned"
    /\ save
    /\ saves = 1
    /\ Len(result) = 2
    /\ Cardinality(links) = 2
    /\ file = _save_books_to_file(result)
    /\ file # OldFile

TableOf == book_resp.page.table.rows

\* the text of the data cell of a row, empty when the row has none
DataText(row) == IF row.td.present THEN row.td.text ELSE <<>>

\* the last row of the table whose header cell has the text key
LastRowWith(key) ==
    SetMax({j \in DOMAIN TableOf : TableOf[j].th.present /\ TableOf[j].th.text = key})

\* C19 as stated: every row of the table with a header cell and a data cell
\* has its entry, header text to data-cell text, in the mapping, and every
\* entry of the mapping comes from a row with a header cell.
C19_EntryPerFullRow ==
    (pc = "returned" /\ HasMainInfo)
    => /\ \A j \in DOMAIN TableOf :
            (TableOf[j].th.present /\ TableOf[j].td.present)
            => /\ DictHas(book_info, TableOf[j].th.text)
               /\ DictGet(book_info, TableOf[j].th.text) = TableOf[j].td.text
       /\ \A key \in DictKeys(book_info) :
            \E j \in DOMAIN TableOf :
                TableOf[j].th.present /\ TableOf[j].th.text = key

\* C19 as amended: the mapping has one entry per header text that is not
\* empty, holding the data-cell text of the last row with that header text
\* (empty when that row has no data cell); rows without a header cell or
\* with an empty one add nothing.
C19_EntryPerHeaderText ==
    (pc = "returned" /\ HasMainInfo)
    => /\ DictKeys(book_info) = HeaderKeys(book_resp.page)
       /\ Len(book_info) = Cardinality(HeaderKeys(book_resp.page))
       /\ \A key \in HeaderKeys(book_resp.page) :
            DictGet(book_info, key) = DataText(TableOf[LastRowWith(key)])

C19_Witness ==
    /\ pc = "returned"
    /\ HasMainInfo
    /\ Len(TableOf) = 2
    /\ TableOf[1].th = Elem(<<>>)
    /\ TableOf[1].td.present
    /\ TableOf[2].th = Elem(<<"UPC">>)
    /\ TableOf[2].td.present
    /\ book_info = <<<<<<"UPC">>, <<"9.50">>>>>>

\* C20: the pause is made once after every batch, the last one included: at
\* the return ceil(N / batch_size) pauses were made; over an empty list no
\* pool is created, no pause is made and the empty list is returned.
C20_PauseAfterEveryBatch ==
    /\ pc \in {"batch_loop", "batch_done"} => sleeps = Len(batch_log)
    /\ pc \in {"batch_collect", "batch_sleep"} => sleeps = Len(batch_log) - 1
    /\ pc = "batch_done" =>
        /\ sleeps = CeilDiv(Len(url_list), batch_size)
        /\ url_list = <<>> =>
            (/\ sleeps = 0
             /\ tasks = <<>>
             /\ batch_log = <<>>
             /\ all_books_data = <<>>)

C20_Witness ==
    /\ pc = "batch_done"
    /\ Len(url_list) = 3
    /\ batch_size = 2
    /\ Len(batch_log) = 2
    /\ sleeps = 2

====
